---- MODULE Spec2Model ----
(***************************************************************************)
(* Model of package certs of firefly-io/karmada-operator                   *)
(* (src/unnamed/part_003): key generation, self-signed CAs, leaf signing,  *)
(* SAN de-duplication, PEM encoding and the GenCerts bundle.               *)
(*                                                                         *)
(* Go values are modelled as follows.                                      *)
(*   slice      [isNil, elems]   a nil slice has no elements               *)
(*   pointer    [isNil] or [isNil, v]                                      *)
(*   string     a TLA+ string; Bytes gives its bytes where order matters   *)
(*   net.IP     [form, addr]: the 4- or 16-byte form of the address addr   *)
(*   time.Time  a number of days                                           *)
(*   error      the sequence of messages, outermost wrapper first; <<>> is *)
(*              the nil error                                              *)
(*   key        [id, alg]; the public half of key k is k.id                *)
(***************************************************************************)
EXTENDS Integers, Sequences, FiniteSets, TLC

VARIABLES
    now,     \* the wall clock read by time.Now()
    cfgs,    \* the caller's *CertsConfig objects, by name
    cfgs0,   \* cfgs as they were when the current (or last) call was entered
    san,     \* the caller's certutil.AltNames object (RemoveDuplicateAltNames)
    san0,    \* san as it was when RemoveDuplicateAltNames was last entered
    ca,      \* the CA certificate and key the caller holds (pointer)
    pc,      \* "idle", or "GenCerts" while GenCerts is running
    step,    \* GenCerts: index in Identities of the block to run next
    data,    \* GenCerts: the local map data
    cas,     \* GenCerts: the local CA certificate/key variables, by CA name
    ret,     \* what the last call returned
    log      \* the primitive operations the current (or last) call executed

vars == <<now, cfgs, cfgs0, san, san0, ca, pc, step, data, cas, ret, log>>

----------------------------------------------------------------------------
(* Bounds of the model *)

\* the clock stops advancing at MaxNow
MaxNow == 1
\* the longest DNS-name or IP list of an AltNames object drawn in InitSAN
MaxSanLen == 3

----------------------------------------------------------------------------
(* Go values *)

NilSlice == [isNil |-> TRUE, elems |-> <<>>]
Slice(s) == [isNil |-> FALSE, elems |-> s]
NilPtr == [isNil |-> TRUE]
Ptr(x) == [isNil |-> FALSE, v |-> x]
NoErr == <<>>
Wrap(msg, err) == <<msg>> \o err

Range(s) == {s[i] : i \in 1..Len(s)}

\* the bytes of the strings used as DNS names and common names
Bytes == [a |-> <<97>>, ab |-> <<97, 98>>, b |-> <<98>>]

\* Go's < on strings: bytewise, a proper prefix first
RECURSIVE BytesLess(_, _)
BytesLess(x, y) ==
    IF y = <<>> THEN FALSE
    ELSE IF x = <<>> THEN TRUE
    ELSE IF Head(x) # Head(y) THEN Head(x) < Head(y)
    ELSE BytesLess(Tail(x), Tail(y))

StrLess(s, t) == BytesLess(Bytes[s], Bytes[t])

\* sets.NewString(items...).List(): the distinct items, sorted; never nil
RECURSIVE SortedList(_)
SortedList(S) ==
    IF S = {} THEN <<>>
    ELSE LET m == CHOOSE x \in S : \A y \in S \ {x} : StrLess(x, y)
         IN  <<m>> \o SortedList(S \ {m})

StringSetList(items) == Slice(SortedList(Range(items)))

IPStringRaw(ip) == ip

\* net.IP.String(): the 4-byte and the 16-byte form of an IPv4 address print alike
IPString(ip) == ip.addr

----------------------------------------------------------------------------
(* RemoveDuplicateAltNames, part_003 lines 151-169 *)

RECURSIVE DedupIPsPrepend(_, _, _)
DedupIPsPrepend(rest, ipsKeys, ips) ==
    IF rest = <<>> THEN ips
    ELSE LET one == Head(rest)
         IN  IF IPString(one) \in ipsKeys
             THEN DedupIPsPrepend(Tail(rest), ipsKeys, ips)
             ELSE DedupIPsPrepend(Tail(rest), ipsKeys \cup {IPString(one)}, <<one>> \o ips)

\* the loop of lines 162-167 over the remaining IPs
RECURSIVE DedupIPs(_, _, _)
DedupIPs(rest, ipsKeys, ips) ==
    IF rest = <<>> THEN ips
    ELSE LET one == Head(rest)
         IN  IF IPString(one) \in ipsKeys
             THEN DedupIPs(Tail(rest), ipsKeys, ips)
             ELSE DedupIPs(Tail(rest), ipsKeys \cup {IPString(one)}, Append(ips, one))

\* altNames is the pointer argument; the result is the value of *altNames after
\* the call (a nil pointer is returned as it is)
RemoveDuplicateAltNames(altNames) ==
    IF altNames.isNil THEN altNames
    ELSE LET a == altNames.v
             dns == IF a.DNSNames.isNil THEN a.DNSNames
                    ELSE StringSetList(a.DNSNames.elems)
             ips == DedupIPs(a.IPs.elems, {}, <<>>)
         IN  Ptr([DNSNames |-> dns,
                  IPs |-> IF ips = <<>> THEN NilSlice ELSE Slice(ips)])

----------------------------------------------------------------------------
(* Program constants *)

\* Duration365d, in days
Duration365d == 365
\* the validity certutil.NewSelfSignedCACert gives a CA: duration365d * 10
CADuration == 3650

\* the one primitive that fails during a call, or "none"
FailPoints == {"none", "NewPrivateKey", "NewSelfSignedCACert", "rand.Int",
               "CreateCertificate", "ParseCertificate", "MarshalPrivateKeyToPEM"}

----------------------------------------------------------------------------
(* Keys and PEM encoding *)

FreshKeyIdReused(used) == 1

\* a key that no live key equals: a freshly generated key is a new random value
FreshKeyId(used) ==
    CHOOSE n \in 1..(Cardinality(used) + 1) :
        n \notin used /\ \A m \in 1..(n - 1) : m \in used

\* NewPrivateKey = GeneratePrivateKey, lines 49-59
NewPrivateKey(keyType, used, fail) ==
    IF fail = "NewPrivateKey"
    THEN [key |-> NilPtr, err |-> <<"key generation failed">>]
    ELSE [key |-> Ptr([id |-> FreshKeyId(used),
                       alg |-> IF keyType = "ECDSA" THEN "ECDSA" ELSE "RSA"]),
          err |-> NoErr]

\* EncodeCertPEM, lines 68-75: the block holding cert.Raw
EncodeCertPEM(cert) == [Type |-> "CERTIFICATE", Bytes |-> cert]

\* keyutil.MarshalPrivateKeyToPEM as called at lines 236, 248, 260, ...
MarshalPrivateKeyToPEM(key, fail) ==
    IF fail = "MarshalPrivateKeyToPEM"
    THEN [pem |-> NilPtr, err |-> <<"private key cannot be marshalled">>]
    ELSE [pem |-> Ptr([Type |-> IF key.alg = "ECDSA" THEN "EC PRIVATE KEY"
                                ELSE "RSA PRIVATE KEY",
                       Bytes |-> key]),
          err |-> NoErr]

----------------------------------------------------------------------------
(* Certificates *)

\* CertsConfig, lines 61-66, with the fields of the embedded certutil.Config
Config(cn, org, usages, altNames, notAfter, alg) ==
    [CommonName |-> cn, Organization |-> org, Usages |-> usages,
     AltNames |-> altNames, NotAfter |-> notAfter, PublicKeyAlgorithm |-> alg]

NoAltNames == [DNSNames |-> NilSlice, IPs |-> NilSlice]

\* NewCertConfig, lines 214-225
NewCertConfig(cn, org, altNames, notAfter) ==
    Config(cn, org, Slice(<<"ServerAuth", "ClientAuth">>), altNames, notAfter,
           "Unknown")

\* what a list of a certificate is after x509.ParseCertificate: an absent (empty)
\* list parses to nil
ParsedList(elems) == IF elems = <<>> THEN NilSlice ELSE Slice(elems)

\* how x509.CreateCertificate encodes an IP SAN: an IPv4 address in its 4-byte form
EncodedIP(ip) == [form |-> 4, addr |-> ip.addr]

\* x509.CreateCertificate(rand, template, parent, pub, priv) followed by
\* x509.ParseCertificate, lines 143-147: the certificate read back from the DER bytes
CreateAndParse(tmpl, parent, pub, priv) ==
    [Subject |-> [CommonName |-> tmpl.Subject.CommonName,
                  Organization |-> ParsedList(tmpl.Subject.Organization.elems)],
     DNSNames |-> ParsedList(tmpl.DNSNames.elems),
     IPAddresses |-> ParsedList([i \in 1..Len(tmpl.IPAddresses.elems) |->
                                    EncodedIP(tmpl.IPAddresses.elems[i])]),
     NotBefore |-> tmpl.NotBefore,
     NotAfter |-> tmpl.NotAfter,
     KeyUsage |-> tmpl.KeyUsage,
     ExtKeyUsage |-> ParsedList(tmpl.ExtKeyUsage.elems),
     BasicConstraintsValid |-> tmpl.BasicConstraintsValid,
     IsCA |-> tmpl.IsCA,
     Issuer |-> parent.Subject,
     PublicKey |-> pub,
     SignedBy |-> priv.id]

\* certutil.NewSelfSignedCACert(cfg, key) as called at line 84; t is its time.Now()
NewSelfSignedCACert(cfg, key, t, fail) ==
    IF fail = "NewSelfSignedCACert"
    THEN [cert |-> NilPtr, err |-> <<"self-signing failed">>]
    ELSE LET tmpl == [Subject |-> [CommonName |-> cfg.CommonName,
                                   Organization |-> cfg.Organization],
                      DNSNames |-> Slice(<<cfg.CommonName>>),
                      IPAddresses |-> NilSlice,
                      NotBefore |-> t,
                      NotAfter |-> t + CADuration,
                      KeyUsage |-> {"KeyEncipherment", "DigitalSignature", "CertSign"},
                      ExtKeyUsage |-> NilSlice,
                      BasicConstraintsValid |-> TRUE,
                      IsCA |-> TRUE]
         IN  [cert |-> Ptr(CreateAndParse(tmpl, tmpl, key.id, key)), err |-> NoErr]

NewCertificateAuthorityWithExpiry(config, t, used, fail) ==
    LET k == NewPrivateKey(config.PublicKeyAlgorithm, used, fail)
        c == NewSelfSignedCACert(config, k.key.v, t, fail)
    IN  IF k.err # NoErr
        THEN [cert |-> NilPtr, key |-> NilPtr,
              err |-> Wrap("unable to create private key while generating CA certificate", k.err),
              ops |-> <<"NewPrivateKey">>]
        ELSE IF c.err # NoErr
        THEN [cert |-> NilPtr, key |-> NilPtr,
              err |-> Wrap("unable to create self-signed CA certificate", c.err),
              ops |-> <<"NewPrivateKey", "NewSelfSignedCACert">>]
        ELSE [cert |-> IF config.NotAfter.isNil THEN c.cert
                       ELSE Ptr([c.cert.v EXCEPT !.NotAfter = config.NotAfter.v]),
              key |-> k.key, err |-> NoErr,
              ops |-> <<"NewPrivateKey", "NewSelfSignedCACert">>]

\* NewCertificateAuthority, lines 77-90
NewCertificateAuthority(config, t, used, fail) ==
    LET k == NewPrivateKey(config.PublicKeyAlgorithm, used, fail)
        c == NewSelfSignedCACert(config, k.key.v, t, fail)
    IN  IF k.err # NoErr
        THEN [cert |-> NilPtr, key |-> NilPtr,
              err |-> Wrap("unable to create private key while generating CA certificate", k.err),
              ops |-> <<"NewPrivateKey">>]
        ELSE IF c.err # NoErr
        THEN [cert |-> NilPtr, key |-> NilPtr,
              err |-> Wrap("unable to create self-signed CA certificate", c.err),
              ops |-> <<"NewPrivateKey", "NewSelfSignedCACert">>]
        ELSE [cert |-> c.cert, key |-> k.key, err |-> NoErr,
              ops |-> <<"NewPrivateKey", "NewSelfSignedCACert">>]

\* NewCACertAndKey, lines 92-104
NewCACertAndKey(cn, t, used, fail) ==
    LET certCfg == Config(cn, NilSlice, NilSlice, NoAltNames, NilPtr, "Unknown")
        r == NewCertificateAuthority(certCfg, t, used, fail)
    IN  IF r.err # NoErr
        THEN [r EXCEPT !.err = Wrap("failure while generating CA certificate and key", r.err)]
        ELSE r

SignedNotAfterAnchored(cfg, caCert, t) ==
    IF cfg.NotAfter.isNil THEN caCert.NotBefore + Duration365d ELSE cfg.NotAfter.v

\* the NotAfter of the template, lines 123-126; t is time.Now()
SignedNotAfter(cfg, caCert, t) ==
    IF cfg.NotAfter.isNil THEN t + Duration365d ELSE cfg.NotAfter.v

SignedKeyUsageAlwaysSign(isCA) ==
    {"KeyEncipherment", "DigitalSignature", "CertSign"}

\* the KeyUsage of the template, lines 116-119
SignedKeyUsage(isCA) ==
    {"KeyEncipherment", "DigitalSignature"} \cup (IF isCA THEN {"CertSign"} ELSE {})

SignedNotBeforeNow(caCert, t) == t

\* the NotBefore of the template, line 136
SignedNotBefore(caCert, t) == caCert.NotBefore

StoreAltNamesInCopy(cfg, altNames) == cfg

\* *cfg after line 121: RemoveDuplicateAltNames is given &cfg.AltNames and writes
\* the lists through it
StoreAltNames(cfg, altNames) == [cfg EXCEPT !.AltNames = altNames]

NormalizedAltNames(cfg) ==
    StoreAltNames(cfg, RemoveDuplicateAltNames(Ptr(cfg.AltNames)).v)

\* NewSignedCert, lines 106-148. cfg is the value of *cfg on entry and the cfg
\* field of the result its value on return; t is time.Now() at line 123.
NewSignedCert(cfg, key, caCert, caKey, isCA, t, fail) ==
    IF fail = "rand.Int"
    THEN [cert |-> NilPtr, err |-> <<"rand.Int failed">>, cfg |-> cfg,
          ops |-> <<"rand.Int">>]
    ELSE IF cfg.CommonName = ""
    THEN [cert |-> NilPtr, err |-> <<"must specify a CommonName">>, cfg |-> cfg,
          ops |-> <<"rand.Int">>]
    ELSE
    LET cfg1 == NormalizedAltNames(cfg)
        certTmpl == [Subject |-> [CommonName |-> cfg1.CommonName,
                                  Organization |-> cfg1.Organization],
                     DNSNames |-> cfg1.AltNames.DNSNames,
                     IPAddresses |-> cfg1.AltNames.IPs,
                     NotBefore |-> SignedNotBefore(caCert, t),
                     NotAfter |-> SignedNotAfter(cfg1, caCert, t),
                     KeyUsage |-> SignedKeyUsage(isCA),
                     ExtKeyUsage |-> cfg1.Usages,
                     BasicConstraintsValid |-> TRUE,
                     IsCA |-> isCA]
    IN  IF fail = "CreateCertificate"
        THEN [cert |-> NilPtr, err |-> <<"x509: CreateCertificate failed">>,
              cfg |-> cfg1,
              ops |-> <<"rand.Int", "time.Now", "CreateCertificate">>]
        ELSE IF fail = "ParseCertificate"
        THEN [cert |-> NilPtr, err |-> <<"x509: ParseCertificate failed">>,
              cfg |-> cfg1,
              ops |-> <<"rand.Int", "time.Now", "CreateCertificate", "ParseCertificate">>]
        ELSE [cert |-> Ptr(CreateAndParse(certTmpl, caCert, key.id, caKey)),
              err |-> NoErr, cfg |-> cfg1,
              ops |-> <<"rand.Int", "time.Now", "CreateCertificate", "ParseCertificate">>]

NewCertAndKeyLateCheck(caCert, caKey, config, t, used, fail) ==
    LET k == NewPrivateKey(config.PublicKeyAlgorithm, used, fail)
        c == NewSignedCert(config, k.key.v, caCert, caKey, FALSE, t, fail)
    IN  IF k.err # NoErr
        THEN [cert |-> NilPtr, key |-> NilPtr,
              err |-> Wrap("unable to create private key", k.err),
              cfg |-> config, ops |-> <<"NewPrivateKey">>]
        ELSE IF Len(config.Usages.elems) = 0
        THEN [cert |-> NilPtr, key |-> NilPtr,
              err |-> <<"must specify at least one ExtKeyUsage">>,
              cfg |-> config, ops |-> <<"NewPrivateKey">>]
        ELSE IF c.err # NoErr
        THEN [cert |-> NilPtr, key |-> NilPtr,
              err |-> Wrap("unable to sign certificate.", c.err),
              cfg |-> c.cfg, ops |-> <<"NewPrivateKey">> \o c.ops]
        ELSE [cert |-> c.cert, key |-> k.key, err |-> NoErr,
              cfg |-> c.cfg, ops |-> <<"NewPrivateKey">> \o c.ops]

\* NewCertAndKey, lines 171-188
NewCertAndKey(caCert, caKey, config, t, used, fail) ==
    IF Len(config.Usages.elems) = 0
    THEN [cert |-> NilPtr, key |-> NilPtr,
          err |-> <<"must specify at least one ExtKeyUsage">>,
          cfg |-> config, ops |-> <<>>]
    ELSE
    LET k == NewPrivateKey(config.PublicKeyAlgorithm, used, fail)
        c == NewSignedCert(config, k.key.v, caCert, caKey, FALSE, t, fail)
    IN  IF k.err # NoErr
        THEN [cert |-> NilPtr, key |-> NilPtr,
              err |-> Wrap("unable to create private key", k.err),
              cfg |-> config, ops |-> <<"NewPrivateKey">>]
        ELSE IF c.err # NoErr
        THEN [cert |-> NilPtr, key |-> NilPtr,
              err |-> Wrap("unable to sign certificate.", c.err),
              cfg |-> c.cfg, ops |-> <<"NewPrivateKey">> \o c.ops]
        ELSE [cert |-> c.cert, key |-> k.key, err |-> NoErr,
              cfg |-> c.cfg, ops |-> <<"NewPrivateKey">> \o c.ops]

----------------------------------------------------------------------------
(* GenCerts, lines 227-329 *)

IdentitiesCAsFirst == <<"ca", "front-proxy-ca", "etcd-ca", "karmada", "apiserver",
                        "front-proxy-client", "etcd-server", "etcd-client">>

\* the eight blocks of GenCerts, in the order of the code
Identities == <<"ca", "karmada", "apiserver", "front-proxy-ca",
                "front-proxy-client", "etcd-ca", "etcd-server", "etcd-client">>
CAs == {"ca", "front-proxy-ca", "etcd-ca"}
Leaves == {"karmada", "apiserver", "front-proxy-client", "etcd-server", "etcd-client"}

\* the common name passed to NewCACertAndKey at lines 229, 268 and 292
CACommonName(id) == IF id = "ca" THEN "karmada" ELSE id

\* the CA whose certificate and key are passed to NewCertAndKey at lines 244,
\* 256, 280, 304 and 316
IssuerOfPrimary(leaf) == "ca"

IssuerOf(leaf) ==
    CASE leaf \in {"karmada", "apiserver"} -> "ca"
      [] leaf = "front-proxy-client" -> "front-proxy-ca"
      [] leaf \in {"etcd-server", "etcd-client"} -> "etcd-ca"

KeyEntry(id) == id \o ".key"
CertEntry(id) == id \o ".crt"

EmptyMap == [x \in {} |-> x]
Put(m, k, x) == [y \in DOMAIN m \cup {k} |-> IF y = k THEN x ELSE m[y]]

StoreEntriesOneName(m, id, keyPEM, certPEM) ==
    Put(Put(m, KeyEntry(id), keyPEM), KeyEntry(id), certPEM)

\* the entries that one block of GenCerts stores, e.g. lines 241-242
StoreEntries(m, id, keyPEM, certPEM) ==
    Put(Put(m, KeyEntry(id), keyPEM), CertEntry(id), certPEM)

\* the keys that exist: the caller's CA key and the keys GenCerts has made so far
LiveKeys ==
    (IF ca.isNil THEN {} ELSE {ca.v.key.id})
    \cup {data[e].Bytes.id : e \in {x \in DOMAIN data : data[x].Type # "CERTIFICATE"}}

Tag(id, ops) == [i \in 1..Len(ops) |-> [id |-> id, op |-> ops[i]]]

\* ret before a call has returned; isCA records the isCA argument of NewSignedCert
NoRet(op) == [op |-> op, done |-> FALSE, data |-> NilPtr, cert |-> NilPtr,
              key |-> NilPtr, err |-> NoErr, isCA |-> FALSE]

\* the value GenCerts returns once every block has succeeded, line 328
GenCertsResult(m) == Ptr(m)

GenCertsReturnPartial(m, err) ==
    /\ ret' = [NoRet("GenCerts") EXCEPT !.done = TRUE,
                  !.data = IF err # NoErr THEN Ptr(data) ELSE m, !.err = err]
    /\ pc' = "idle"
    /\ step' = 0
    /\ data' = EmptyMap
    /\ cas' = EmptyMap

\* return from GenCerts: its locals are gone
GenCertsReturn(m, err) ==
    /\ ret' = [NoRet("GenCerts") EXCEPT !.done = TRUE, !.data = m, !.err = err]
    /\ pc' = "idle"
    /\ step' = 0
    /\ data' = EmptyMap
    /\ cas' = EmptyMap

\* the call GenCerts(etcdServerCertCfg, ..., frontProxyClientCertCfg) is entered
GenCertsEnter ==
    /\ pc = "idle"
    /\ DOMAIN cfgs = Leaves
    /\ pc' = "GenCerts"
    /\ step' = 1
    /\ data' = EmptyMap
    /\ cas' = EmptyMap
    /\ cfgs0' = cfgs
    /\ log' = <<>>
    /\ ret' = NoRet("GenCerts")
    /\ UNCHANGED <<now, cfgs, san, san0, ca>>

\* a CA block: lines 229-242, 268-278, 292-302
GenCertsCA ==
    /\ pc = "GenCerts"
    /\ Identities[step] \in CAs
    /\ \E dt \in {0, 1}, fail \in FailPoints :
        /\ now + dt <= MaxNow
        /\ now' = now + dt
        /\ LET id == Identities[step]
               r == NewCACertAndKey(CACommonName(id), now + dt, LiveKeys, fail)
               k == MarshalPrivateKeyToPEM(r.key.v, fail)
           IN  IF r.err # NoErr
               THEN /\ GenCertsReturn(NilPtr, r.err)
                    /\ log' = log \o Tag(id, r.ops)
               ELSE IF k.err # NoErr
               THEN /\ GenCertsReturn(NilPtr, k.err)
                    /\ log' = log \o Tag(id, r.ops \o <<"MarshalPrivateKeyToPEM">>)
               ELSE /\ data' = StoreEntries(data, id, k.pem.v, EncodeCertPEM(r.cert.v))
                    /\ cas' = Put(cas, id, [cert |-> r.cert.v, key |-> r.key.v])
                    /\ step' = step + 1
                    /\ log' = log \o Tag(id, r.ops \o <<"MarshalPrivateKeyToPEM", "EncodeCertPEM">>)
                    /\ UNCHANGED <<pc, ret>>
    /\ UNCHANGED <<cfgs, cfgs0, san, san0, ca>>

\* a leaf block: lines 244-254, 256-266, 280-290, 304-314, 316-328
GenCertsLeaf ==
    /\ pc = "GenCerts"
    /\ Identities[step] \in Leaves
    /\ \E dt \in {0, 1}, fail \in FailPoints :
        /\ now + dt <= MaxNow
        /\ now' = now + dt
        /\ LET id == Identities[step]
               issuer == cas[IssuerOf(id)]
               r == NewCertAndKey(issuer.cert, issuer.key, cfgs[id], now + dt,
                                  LiveKeys, fail)
               k == MarshalPrivateKeyToPEM(r.key.v, fail)
               stored == StoreEntries(data, id, k.pem.v, EncodeCertPEM(r.cert.v))
           IN  /\ cfgs' = [cfgs EXCEPT ![id] = r.cfg]
               /\ IF r.err # NoErr
                  THEN /\ GenCertsReturn(NilPtr, r.err)
                       /\ log' = log \o Tag(id, r.ops)
                  ELSE IF k.err # NoErr
                  THEN /\ GenCertsReturn(NilPtr, k.err)
                       /\ log' = log \o Tag(id, r.ops \o <<"MarshalPrivateKeyToPEM">>)
                  ELSE IF step = Len(Identities)
                  THEN /\ GenCertsReturn(GenCertsResult(stored), NoErr)
                       /\ log' = log \o Tag(id, r.ops \o <<"MarshalPrivateKeyToPEM", "EncodeCertPEM">>)
                  ELSE /\ data' = stored
                       /\ step' = step + 1
                       /\ log' = log \o Tag(id, r.ops \o <<"MarshalPrivateKeyToPEM", "EncodeCertPEM">>)
                       /\ UNCHANGED <<pc, ret, cas>>
    /\ UNCHANGED <<cfgs0, san, san0, ca>>

----------------------------------------------------------------------------
(* The configs a caller of GenCerts passes *)

IP1v4 == [form |-> 4, addr |-> "10.0.0.1"]
IP1v16 == [form |-> 16, addr |-> "10.0.0.1"]
IP2v4 == [form |-> 4, addr |-> "10.0.0.2"]

DupAltNames == [DNSNames |-> Slice(<<"b", "a", "a">>),
                IPs |-> Slice(<<IP2v4, IP1v16, IP2v4, IP1v4>>)]

\* the config a caller builds with NewCertConfig for one leaf
DefaultConfig(leaf) == NewCertConfig(leaf, Slice(<<"org">>), DupAltNames, NilPtr)

\* the same config with one field different
OddConfigs(leaf) ==
    LET d == DefaultConfig(leaf)
    IN  { [d EXCEPT !.CommonName = ""],
          [d EXCEPT !.Usages = NilSlice],
          [d EXCEPT !.Usages = Slice(<<>>)],
          [d EXCEPT !.NotAfter = Ptr(0)],
          [d EXCEPT !.NotAfter = Ptr(500)],
          [d EXCEPT !.PublicKeyAlgorithm = "ECDSA"],
          [d EXCEPT !.AltNames = NoAltNames],
          [d EXCEPT !.AltNames = [DNSNames |-> Slice(<<>>), IPs |-> Slice(<<>>)]] }

GenCertsInputs ==
    {[l \in Leaves |-> DefaultConfig(l)]}
    \cup {[l \in Leaves |-> IF l = k THEN c ELSE DefaultConfig(l)] :
            <<k, c>> \in UNION {{<<x, y>> : y \in OddConfigs(x)} : x \in Leaves}}

Init ==
    /\ now = 0
    /\ cfgs \in GenCertsInputs
    /\ cfgs0 = cfgs
    /\ san = NilPtr
    /\ san0 = NilPtr
    /\ ca = NilPtr
    /\ pc = "idle"
    /\ step = 0
    /\ data = EmptyMap
    /\ cas = EmptyMap
    /\ ret = NoRet("none")
    /\ log = <<>>

Next == GenCertsEnter \/ GenCertsCA \/ GenCertsLeaf

Spec == Init /\ [][Next]_vars

----------------------------------------------------------------------------
(* Direct calls of NewCACertAndKey, NewCertAndKey and NewSignedCert by a caller *)
(* that holds one config object and the CA it created last                     *)

Returned(op, cert, key, err, isCA) ==
    [NoRet(op) EXCEPT !.done = TRUE, !.cert = cert, !.key = key, !.err = err,
                      !.isCA = isCA]

CallNewCACertAndKey ==
    /\ pc = "idle"
    /\ \E dt \in {0, 1}, fail \in FailPoints :
        /\ now + dt <= MaxNow
        /\ now' = now + dt
        /\ LET r == NewCACertAndKey("ca", now + dt, LiveKeys, fail)
           IN  /\ ret' = Returned("NewCACertAndKey", r.cert, r.key, r.err, FALSE)
               /\ ca' = IF r.err = NoErr
                        THEN Ptr([cert |-> r.cert.v, key |-> r.key.v])
                        ELSE ca
               /\ log' = Tag("ca", r.ops)
    /\ cfgs0' = cfgs
    /\ UNCHANGED <<cfgs, san, san0, pc, step, data, cas>>

\* the caller passes its config object; the result is looked at, not kept
CallNewCertificateAuthority ==
    /\ pc = "idle"
    /\ \E c \in DOMAIN cfgs, dt \in {0, 1}, fail \in FailPoints :
        /\ now + dt <= MaxNow
        /\ now' = now + dt
        /\ LET r == NewCertificateAuthority(cfgs[c], now + dt, LiveKeys, fail)
           IN  /\ ret' = Returned("NewCertificateAuthority", r.cert, r.key, r.err, FALSE)
               /\ log' = Tag(c, r.ops)
    /\ cfgs0' = cfgs
    /\ UNCHANGED <<cfgs, san, san0, ca, pc, step, data, cas>>

CallNewCertAndKey ==
    /\ pc = "idle"
    /\ ~ca.isNil
    /\ \E c \in DOMAIN cfgs, dt \in {0, 1}, fail \in FailPoints :
        /\ now + dt <= MaxNow
        /\ now' = now + dt
        /\ LET r == NewCertAndKey(ca.v.cert, ca.v.key, cfgs[c], now + dt,
                                  LiveKeys, fail)
           IN  /\ ret' = Returned("NewCertAndKey", r.cert, r.key, r.err, FALSE)
               /\ cfgs' = [cfgs EXCEPT ![c] = r.cfg]
               /\ log' = Tag(c, r.ops)
    /\ cfgs0' = cfgs
    /\ UNCHANGED <<san, san0, ca, pc, step, data, cas>>

\* the caller passes a key of its own, made before the call
CallNewSignedCert ==
    /\ pc = "idle"
    /\ ~ca.isNil
    /\ \E c \in DOMAIN cfgs, isCA \in BOOLEAN, dt \in {0, 1}, fail \in FailPoints :
        /\ now + dt <= MaxNow
        /\ now' = now + dt
        /\ LET key == [id |-> FreshKeyId(LiveKeys), alg |-> "RSA"]
               r == NewSignedCert(cfgs[c], key, ca.v.cert, ca.v.key, isCA,
                                  now + dt, fail)
           IN  /\ ret' = Returned("NewSignedCert", r.cert, Ptr(key), r.err, isCA)
               /\ cfgs' = [cfgs EXCEPT ![c] = r.cfg]
               /\ log' = Tag(c, r.ops)
    /\ cfgs0' = cfgs
    /\ UNCHANGED <<san, san0, ca, pc, step, data, cas>>

\* the configs of the direct calls: every combination of the fields below
IssueConfigs ==
    {Config(cn, Slice(<<"org">>), u, a, na, alg) :
        cn \in {"", "a"},
        u \in {NilSlice, Slice(<<"ClientAuth">>)},
        a \in {NoAltNames, DupAltNames},
        na \in {NilPtr, Ptr(0), Ptr(500)},
        alg \in {"Unknown", "ECDSA"}}

InitIssue ==
    /\ now = 0
    /\ cfgs \in {[cfg |-> x] : x \in IssueConfigs}
    /\ cfgs0 = cfgs
    /\ san = NilPtr
    /\ san0 = NilPtr
    /\ ca = NilPtr
    /\ pc = "idle"
    /\ step = 0
    /\ data = EmptyMap
    /\ cas = EmptyMap
    /\ ret = NoRet("none")
    /\ log = <<>>

NextIssue ==
    \/ CallNewCACertAndKey
    \/ CallNewCertificateAuthority
    \/ CallNewCertAndKey
    \/ CallNewSignedCert

SpecIssue == InitIssue /\ [][NextIssue]_vars

----------------------------------------------------------------------------
(* Direct calls of RemoveDuplicateAltNames *)

CallRemoveDuplicateAltNames ==
    /\ san0' = san
    /\ san' = RemoveDuplicateAltNames(san)
    /\ ret' = [NoRet("RemoveDuplicateAltNames") EXCEPT !.done = TRUE]
    /\ UNCHANGED <<now, cfgs, cfgs0, ca, pc, step, data, cas, log>>

DNSChoices == {"a", "ab", "b"}
IPChoices == {IP1v4, IP1v16, IP2v4}

\* nil, and every list of at most MaxSanLen of the elements of S
SanLists(S) ==
    {NilSlice} \cup {Slice(s) : s \in UNION {[1..n -> S] : n \in 0..MaxSanLen}}

InitSAN ==
    /\ now = 0
    /\ cfgs = EmptyMap
    /\ cfgs0 = EmptyMap
    /\ san \in {NilPtr} \cup {Ptr([DNSNames |-> d, IPs |-> i]) :
                                d \in SanLists(DNSChoices), i \in SanLists(IPChoices)}
    /\ san0 = san
    /\ ca = NilPtr
    /\ pc = "idle"
    /\ step = 0
    /\ data = EmptyMap
    /\ cas = EmptyMap
    /\ ret = NoRet("none")
    /\ log = <<>>

NextSAN == CallRemoveDuplicateAltNames

SpecSAN == InitSAN /\ [][NextSAN]_vars

----------------------------------------------------------------------------
(* Claims about GenCerts, checked under Spec *)

GenCertsReturned == ret.op = "GenCerts" /\ ret.done

\* the fixed key set of a full bundle
BundleKeys ==
    {"ca.key", "ca.crt", "karmada.key", "karmada.crt",
     "apiserver.key", "apiserver.crt", "front-proxy-ca.key", "front-proxy-ca.crt",
     "front-proxy-client.key", "front-proxy-client.crt", "etcd-ca.key", "etcd-ca.crt",
     "etcd-server.key", "etcd-server.crt", "etcd-client.key", "etcd-client.crt"}

\* every one of the eight blocks ran to its end
AllBlocksRan ==
    \A i \in 1..Len(Identities) :
        \E j \in 1..Len(log) : log[j] = [id |-> Identities[i], op |-> "EncodeCertPEM"]

\* C1: GenCerts is atomic. Whenever it has returned, either every block ran to
\* its end and it returned the complete bundle with no error, or some step
\* failed and it returned an error with a nil map; there is no third outcome.
C1_Atomic ==
    GenCertsReturned =>
        \/ /\ AllBlocksRan
           /\ ret.err = NoErr
           /\ ~ret.data.isNil
           /\ DOMAIN ret.data.v = BundleKeys
        \/ /\ ~AllBlocksRan
           /\ ret.err # NoErr
           /\ ret.data.isNil

\* key generation failed for the third identity, after two blocks had stored
\* their entries
C1_Witness ==
    /\ GenCertsReturned
    /\ ret.err # NoErr
    /\ ret.data.isNil
    /\ log # <<>>
    /\ log[Len(log)] = [id |-> "apiserver", op |-> "NewPrivateKey"]

\* C2: a successful GenCerts returns exactly 16 entries, a .key and a .crt for
\* each of the eight identities and nothing else; each .key entry is a private
\* key block and each .crt entry a certificate block.
C2_SixteenEntries ==
    (GenCertsReturned /\ ret.err = NoErr) =>
        /\ ~ret.data.isNil
        /\ Cardinality(DOMAIN ret.data.v) = 16
        /\ DOMAIN ret.data.v = BundleKeys
        /\ \A id \in CAs \cup Leaves :
            /\ ret.data.v[id \o ".key"].Type \in {"RSA PRIVATE KEY", "EC PRIVATE KEY"}
            /\ ret.data.v[id \o ".crt"].Type = "CERTIFICATE"

C2_Witness == GenCertsReturned /\ ret.err = NoErr /\ ~ret.data.isNil

\* the CA that is to sign each leaf, and the common name of each CA
DesignatedCA ==
    [l \in Leaves |->
        IF l \in {"karmada", "apiserver"} THEN "ca"
        ELSE IF l = "front-proxy-client" THEN "front-proxy-ca"
        ELSE "etcd-ca"]
DesignatedCN ==
    [c \in CAs |-> IF c = "ca" THEN "karmada" ELSE c]

BundleCert(id) == ret.data.v[id \o ".crt"].Bytes
BundleKey(id) == ret.data.v[id \o ".key"].Bytes

\* C3: in a returned bundle every leaf names its designated CA as issuer and is
\* signed by that CA's key and by no other CA's key; the three CAs carry the
\* common names karmada, front-proxy-ca and etcd-ca, have three different keys
\* and are each self-signed.
C3_DesignatedIssuer ==
    (GenCertsReturned /\ ret.err = NoErr) =>
        /\ \A l \in Leaves :
            /\ BundleCert(l).Issuer = BundleCert(DesignatedCA[l]).Subject
            /\ BundleCert(l).SignedBy = BundleKey(DesignatedCA[l]).id
            /\ \A c \in CAs \ {DesignatedCA[l]} :
                BundleCert(l).SignedBy # BundleKey(c).id
        /\ \A c \in CAs :
            /\ BundleCert(c).Subject.CommonName = DesignatedCN[c]
            /\ BundleCert(c).IsCA
            /\ BundleCert(c).PublicKey = BundleKey(c).id
            /\ BundleCert(c).SignedBy = BundleKey(c).id
            /\ BundleCert(c).Issuer = BundleCert(c).Subject
            /\ \A d \in CAs \ {c} : BundleKey(c).id # BundleKey(d).id

C3_Witness ==
    /\ GenCertsReturned
    /\ ret.err = NoErr
    /\ BundleCert("etcd-client").SignedBy = BundleKey("etcd-ca").id
    /\ BundleCert("front-proxy-client").Issuer.CommonName = "front-proxy-ca"

----------------------------------------------------------------------------
(* Claims about NewCertAndKey and NewSignedCert, checked under SpecIssue, where *)
(* the caller's one config object is cfgs.cfg and the issuer is ca              *)

IssuedBy(op) == ret.op = op /\ ret.done

\* C4: NewCertAndKey given a config with no extended key usage returns the
\* ExtKeyUsage validation error with neither certificate nor key, and has then
\* called neither NewPrivateKey nor rand.Int (nor anything else).
C4_UsagesCheckedFirst ==
    (IssuedBy("NewCertAndKey") /\ Len(cfgs0.cfg.Usages.elems) = 0) =>
        /\ ret.err = <<"must specify at least one ExtKeyUsage">>
        /\ ret.cert.isNil
        /\ ret.key.isNil
        /\ \A j \in 1..Len(log) : log[j].op \notin {"NewPrivateKey", "rand.Int"}
        /\ log = <<>>

C4_Witness ==
    /\ IssuedBy("NewCertAndKey")
    /\ cfgs0.cfg.Usages = NilSlice
    /\ cfgs0.cfg.CommonName = "a"
    /\ ret.err # NoErr

\* C5: NewSignedCert given a config with an empty CommonName returns the
\* CommonName validation error and no certificate, whatever else it is given.
C5_CommonNameError ==
    (IssuedBy("NewSignedCert") /\ cfgs0.cfg.CommonName = "") =>
        /\ ret.err = <<"must specify a CommonName">>
        /\ ret.cert.isNil

\* C6: a certificate returned by NewSignedCert (directly or through
\* NewCertAndKey) has the NotBefore of the issuer certificate it was given.
C6_NotBeforeOfIssuer ==
    ((IssuedBy("NewSignedCert") \/ IssuedBy("NewCertAndKey")) /\ ~ret.cert.isNil) =>
        ret.cert.v.NotBefore = ca.v.cert.NotBefore

\* the certificate was issued after the issuer was created, from a config
\* with an expiry of its own
C6_Witness ==
    /\ IssuedBy("NewSignedCert")
    /\ ~ret.cert.isNil
    /\ ca.v.cert.NotBefore < now
    /\ ~cfgs0.cfg.NotAfter.isNil

\* C7 as claimed: NotAfter is the config's expiry when it has one, and otherwise
\* the certificate's own NotBefore plus 365 days.
C7_NotAfterFromNotBefore ==
    ((IssuedBy("NewSignedCert") \/ IssuedBy("NewCertAndKey")) /\ ~ret.cert.isNil) =>
        ret.cert.v.NotAfter =
            IF cfgs0.cfg.NotAfter.isNil
            THEN ret.cert.v.NotBefore + 365
            ELSE cfgs0.cfg.NotAfter.v

\* C7 as amended: NotAfter is the config's expiry when it has one, and otherwise
\* the time of the call (time.Now() in NewSignedCert) plus 365 days, whatever
\* the issuer's NotBefore.
C7_NotAfterFromNow ==
    ((IssuedBy("NewSignedCert") \/ IssuedBy("NewCertAndKey")) /\ ~ret.cert.isNil) =>
        ret.cert.v.NotAfter =
            IF cfgs0.cfg.NotAfter.isNil
            THEN now + 365
            ELSE cfgs0.cfg.NotAfter.v

\* a certificate without an expiry of its own, issued after its issuer was created
C7_Witness ==
    /\ IssuedBy("NewCertAndKey")
    /\ ~ret.cert.isNil
    /\ cfgs0.cfg.NotAfter.isNil
    /\ ca.v.cert.NotBefore < now

----------------------------------------------------------------------------
(* C8, checked under Spec *)

CertCall == ret.op \in {"GenCerts", "NewCertAndKey", "NewSignedCert"}

\* NewSignedCert went past line 121 for config c during the call
PastNormalization(c) ==
    \E j \in 1..Len(log) : log[j] = [id |-> c, op |-> "time.Now"]

\* C8 as claimed: after a call the DNS-name and IP lists of every config of the
\* caller are what they were before the call.
C8_ConfigsUntouched ==
    (CertCall /\ ret.done) =>
        \A c \in DOMAIN cfgs : cfgs[c].AltNames = cfgs0[c].AltNames

\* C8 as amended: normalization is done in place. During and after a call, a
\* config for which NewSignedCert went past its CommonName check has its
\* DNS-name and IP lists replaced by their normalized form, and is otherwise
\* as before the call; every other config is exactly as before the call.
C8_NormalizedInPlace ==
    CertCall =>
        \A c \in DOMAIN cfgs :
            cfgs[c] =
                IF PastNormalization(c)
                THEN [cfgs0[c] EXCEPT
                        !.AltNames = RemoveDuplicateAltNames(Ptr(cfgs0[c].AltNames)).v]
                ELSE cfgs0[c]

\* GenCerts failed in its last block after it had rewritten the lists of the
\* first leaf config
C8_Witness ==
    /\ GenCertsReturned
    /\ ret.err # NoErr
    /\ log[Len(log)].id = "etcd-client"
    /\ cfgs0["karmada"].AltNames = DupAltNames
    /\ cfgs["karmada"].AltNames.DNSNames = Slice(<<"a", "b">>)
    /\ cfgs["karmada"].AltNames.IPs = Slice(<<IP2v4, IP1v16>>)

----------------------------------------------------------------------------
(* Claims about RemoveDuplicateAltNames, checked under SpecSAN *)

Deduplicated == ret.op = "RemoveDuplicateAltNames" /\ ret.done

\* the lexicographic order of the DNS names drawn
DNSRank == [a |-> 1, ab |-> 2, b |-> 3]

\* the canonical text of an address
IPText(ip) == ip.addr

\* the index at which the text txt first occurs in the IP list s
FirstSeen(s, txt) ==
    CHOOSE i \in 1..Len(s) :
        IPText(s[i]) = txt /\ \A j \in 1..(i - 1) : IPText(s[j]) # txt

\* C9: after RemoveDuplicateAltNames the DNS list holds the distinct input names
\* once each in ascending order, and the IP list holds, for each distinct
\* canonical text of the input, the first address with that text, once, in the
\* order of those first occurrences; nothing is added or lost.
C9_SortedDNSFirstSeenIPs ==
    (Deduplicated /\ ~san0.isNil) =>
        LET inD == san0.v.DNSNames.elems
            outD == san.v.DNSNames.elems
            inI == san0.v.IPs.elems
            outI == san.v.IPs.elems
        IN  /\ Range(outD) = Range(inD)
            /\ \A i, j \in 1..Len(outD) : i < j => DNSRank[outD[i]] < DNSRank[outD[j]]
            /\ {IPText(x) : x \in Range(outI)} = {IPText(x) : x \in Range(inI)}
            /\ \A i, j \in 1..Len(outI) :
                i < j => /\ IPText(outI[i]) # IPText(outI[j])
                         /\ FirstSeen(inI, IPText(outI[i])) < FirstSeen(inI, IPText(outI[j]))
            /\ \A i \in 1..Len(outI) : outI[i] = inI[FirstSeen(inI, IPText(outI[i]))]

\* unsorted names with a duplicate, and one address given in both of its forms
C9_Witness ==
    /\ Deduplicated
    /\ ~san0.isNil
    /\ san0.v.DNSNames.elems = <<"b", "ab", "b">>
    /\ san0.v.IPs.elems = <<IP2v4, IP1v16, IP1v4>>
    /\ san.v.DNSNames.elems = <<"ab", "b">>
    /\ san.v.IPs.elems = <<IP2v4, IP1v16>>

\* C10: RemoveDuplicateAltNames is idempotent: applied to what a call has left,
\* it changes nothing (nil and empty lists included).
C10_Idempotent ==
    Deduplicated => RemoveDuplicateAltNames(san) = san

\* a call that turned an empty IP list into a nil one and left a nil DNS list nil
C10_Witness ==
    /\ Deduplicated
    /\ ~san0.isNil
    /\ san0.v.DNSNames = NilSlice
    /\ san0.v.IPs = Slice(<<>>)
    /\ san.v.IPs = NilSlice

----------------------------------------------------------------------------
(* Claims about CA certificates and key usage, checked under SpecIssue *)

\* C11 as claimed: a CA certificate from NewCertificateAuthority starts at its
\* creation time and ends 365 days later, or at the config's expiry when the
\* config has one.
C11_CAValidityFromConfig ==
    (IssuedBy("NewCertificateAuthority") /\ ~ret.cert.isNil) =>
        /\ ret.cert.v.NotBefore = now
        /\ ret.cert.v.NotAfter =
            IF cfgs0.cfg.NotAfter.isNil
            THEN ret.cert.v.NotBefore + 365
            ELSE cfgs0.cfg.NotAfter.v

\* C11 as amended: a CA certificate from NewCertificateAuthority starts at its
\* creation time and ends 3650 days (ten times 365) after it, whether or not the
\* config has an expiry: NewCertificateAuthority does not read config.NotAfter.
C11_CAValidityTenYears ==
    (IssuedBy("NewCertificateAuthority") /\ ~ret.cert.isNil) =>
        /\ ret.cert.v.NotBefore = now
        /\ ret.cert.v.NotAfter = now + 3650

\* a CA made on day 1 from a config that asks for an expiry on day 500
C11_Witness ==
    /\ IssuedBy("NewCertificateAuthority")
    /\ ~ret.cert.isNil
    /\ ret.cert.v.IsCA
    /\ cfgs0.cfg.NotAfter = Ptr(500)
    /\ now = 1

\* what C12 says of a certificate c made with argument isCA from usages list u
UsageAsAsked(c, isCA, u) ==
    /\ {"DigitalSignature", "KeyEncipherment"} \subseteq c.KeyUsage
    /\ ("CertSign" \in c.KeyUsage) <=> isCA
    /\ c.BasicConstraintsValid
    /\ c.IsCA = isCA
    /\ c.ExtKeyUsage.elems = u.elems

\* C12: a certificate from NewSignedCert has DigitalSignature and
\* KeyEncipherment, has CertSign exactly when isCA was given, has valid basic
\* constraints with IsCA = isCA, and carries the config's extended key usages;
\* a certificate from NewCertAndKey (every leaf of a bundle) is therefore no CA,
\* has no CertSign and has at least one extended key usage.
C12_KeyUsage ==
    /\ (IssuedBy("NewSignedCert") /\ ~ret.cert.isNil) =>
        UsageAsAsked(ret.cert.v, ret.isCA, cfgs0.cfg.Usages)
    /\ (IssuedBy("NewCertAndKey") /\ ~ret.cert.isNil) =>
        /\ UsageAsAsked(ret.cert.v, FALSE, cfgs0.cfg.Usages)
        /\ ~ret.cert.v.IsCA
        /\ "CertSign" \notin ret.cert.v.KeyUsage
        /\ Len(ret.cert.v.ExtKeyUsage.elems) >= 1

\* a subordinate CA certificate made by NewSignedCert with isCA = TRUE
C12_Witness ==
    /\ IssuedBy("NewSignedCert")
    /\ ~ret.cert.isNil
    /\ ret.isCA
    /\ "CertSign" \in ret.cert.v.KeyUsage
    /\ ret.cert.v.ExtKeyUsage.elems = <<"ClientAuth">>

----------------------------------------------------------------------------
(* Claims about the order of work in GenCerts, checked under Spec *)

\* the order in which the identities are to be processed
ClaimedOrder == <<"ca", "karmada", "apiserver", "front-proxy-ca",
                  "front-proxy-client", "etcd-ca", "etcd-server", "etcd-client">>

Pos(id) == CHOOSE i \in 1..Len(ClaimedOrder) : ClaimedOrder[i] = id

\* the failures each primitive can be the last one executed before; a block
\* that ended with EncodeCertPEM is followed by the usage check of the next leaf
FailureAfter(op) ==
    CASE op = "NewPrivateKey" -> {"key generation failed"}
      [] op = "NewSelfSignedCACert" -> {"self-signing failed"}
      [] op = "rand.Int" -> {"rand.Int failed", "must specify a CommonName"}
      [] op = "CreateCertificate" -> {"x509: CreateCertificate failed"}
      [] op = "ParseCertificate" -> {"x509: ParseCertificate failed"}
      [] op = "MarshalPrivateKeyToPEM" -> {"private key cannot be marshalled"}
      [] op = "EncodeCertPEM" -> {"must specify at least one ExtKeyUsage"}
      [] OTHER -> {}

\* C13: GenCerts is fail-fast without retry. The primitives it executes follow
\* the fixed order of the identities with none skipped; no primitive is executed
\* twice for one identity; a block is left only after its last primitive
\* (EncodeCertPEM); and when GenCerts returns an error, the last primitive
\* executed is the one the error is about, so nothing ran after the failure.
C13_FailFast ==
    ret.op = "GenCerts" =>
        /\ \A j \in 1..Len(log) : \E i \in 1..Len(ClaimedOrder) : log[j].id = ClaimedOrder[i]
        /\ log # <<>> => log[1].id = ClaimedOrder[1]
        /\ \A j \in 1..(Len(log) - 1) :
            \/ log[j + 1].id = log[j].id
            \/ /\ Pos(log[j + 1].id) = Pos(log[j].id) + 1
               /\ log[j].op = "EncodeCertPEM"
        /\ \A j, k \in 1..Len(log) : j < k => log[j] # log[k]
        /\ ~ret.done => ret.err = NoErr
        /\ (ret.done /\ ret.err # NoErr) =>
            /\ log # <<>>
            /\ ret.err[Len(ret.err)] \in FailureAfter(log[Len(log)].op)

\* the etcd CA could not be self-signed after five identities had been made
C13_Witness ==
    /\ GenCertsReturned
    /\ ret.err # NoErr
    /\ Len(log) = 31
    /\ log[Len(log)] = [id |-> "etcd-ca", op |-> "NewSelfSignedCACert"]

\* C14: in a successful GenCerts NewPrivateKey is called exactly eight times,
\* once for each identity; the eight .key entries hold eight different keys;
\* each .crt certifies the public half of the key in the .key entry of the same
\* name; and a certificate is signed by a CA's key exactly when it is that CA's
\* own certificate or a leaf of its hierarchy, never by a leaf's key.
C14_OneKeyPerIdentity ==
    (GenCertsReturned /\ ret.err = NoErr) =>
        /\ Cardinality({j \in 1..Len(log) : log[j].op = "NewPrivateKey"}) = 8
        /\ \A id \in CAs \cup Leaves :
            /\ Cardinality({j \in 1..Len(log) :
                              log[j] = [id |-> id, op |-> "NewPrivateKey"]}) = 1
            /\ BundleCert(id).PublicKey = BundleKey(id).id
            /\ \A other \in (CAs \cup Leaves) \ {id} :
                BundleKey(id).id # BundleKey(other).id
            /\ \A c \in CAs :
                (BundleCert(id).SignedBy = BundleKey(c).id)
                    <=> (id = c \/ (id \in Leaves /\ DesignatedCA[id] = c))
            /\ \A l \in Leaves : BundleCert(id).SignedBy # BundleKey(l).id

\* a bundle in which one leaf has an ECDSA key and the others RSA keys
C14_Witness ==
    /\ GenCertsReturned
    /\ ret.err = NoErr
    /\ BundleKey("etcd-server").alg = "ECDSA"
    /\ BundleKey("etcd-ca").alg = "RSA"
    /\ BundleCert("etcd-server").PublicKey = BundleKey("etcd-server").id

----------------------------------------------------------------------------
(* C15, checked under SpecIssue *)

\* C15: every certificate returned by NewSignedCert (directly or through
\* NewCertAndKey) has a non-empty validity window: its NotAfter is strictly
\* later than its NotBefore, for every issuer and every config.
C15_NonEmptyValidity ==
    ((IssuedBy("NewSignedCert") \/ IssuedBy("NewCertAndKey")) /\ ~ret.cert.isNil) =>
        ret.cert.v.NotBefore < ret.cert.v.NotAfter

====
